---- MODULE Spec2Model ----
(***************************************************************************)
(* A model of the Parabel forest trainer of src/src/model/train.rs:        *)
(* hyper-parameter validation, label-centroid construction, the           *)
(* TrainingExamples and LabelCluster views, and the recursive, parallel   *)
(* induction of the trees.                                                 *)
(*                                                                         *)
(* Numbers.  A feature value of a TrainingExamples matrix is an integer    *)
(* counting units of 1/One (the bias value 1.0 is the integer One).        *)
(* An L2-normalised centroid is kept exactly, as the integer sums v and    *)
(* the squared norm n2: entry i stands for v[i] / sqrt(n2).  A threshold   *)
(* is the rational num/den, or the f32 NaN.                                *)
(***************************************************************************)
EXTENDS Integers, Sequences, FiniteSets, TLC

VARIABLES
    hyper_param,    \* the HyperParam `self` of validate() / train()
    vres,           \* SpecValidate: the value validate() returned, or Pending
    dataset,        \* the DataSet handed to the operation under study
    chain_te,       \* SpecExamples: the TrainingExamples at the end of the chain
    chain_rows,     \* SpecExamples: for each of its rows, the dataset example (1-based)
    chain_takes,    \* SpecExamples: -1 before new_from_dataset, then the number
                    \* of take_examples_by_indices calls made
    cent_pc,        \* SpecCentroids: "idle", "raw", "normalized" or "done"
    cent,           \* SpecCentroids: what compute_label_centroids returned
    phase,          \* where HyperParam::train is: "idle", "start", "validated",
                    \* "trees", "returned" or "panicked"
    trainer,        \* the TreeTrainer of train(), once initialize() has built it
    progress_bar,   \* the trainer's Mutex<ProgressBar>: counter, total and the lock
    nodes,          \* the train_subtree calls made so far, by node id <<tree, path>>
    trees,          \* the trees the tree tasks have returned, and in which order
    arcs,           \* the strong counts of the Arc<TrainingExamples> and
                    \* Arc<LabelCluster> handles, by the node they were made for
    model           \* the Model train() returned

vars == <<hyper_param, vres, dataset, chain_te, chain_rows, chain_takes, cent_pc, cent,
          phase, trainer, progress_bar, nodes, trees, arcs, model>>

valVars == <<hyper_param, vres>>
chainVars == <<chain_te, chain_rows, chain_takes>>
centVars == <<cent_pc, cent>>
trainVars == <<phase, trainer, progress_bar, nodes, trees, arcs, model>>

Pending == [ok |-> FALSE, msg |-> "pending"]

\* ------------------------------------------------------------------ bounds
\* n_trees, min_branch_size and max_depth range over 0..ValMax (+1) in the
\* validation input space.
ValMax == 2
\* Features 0 .. NFeatures - 1, labels 0 .. NLabels - 1, at most MaxExamples
\* examples in a dataset.
NFeatures == 2
NLabels == 3
MaxExamples == 2
\* The longest chain of take_examples_by_indices calls of SpecExamples.
MaxChain == 2
\* Spec trains at most MaxTrees trees of depth at most MaxDepth.
MaxTrees == 2
MaxDepth == 3

\* ------------------------------------------------------------ f32 values
\* The f32 1.0 (the bias value), in units of 1/One.
One == 5

Rat(n, d) == [num |-> n, den |-> d, nan |-> FALSE]
NaN == [num |-> 0, den |-> 1, nan |-> TRUE]

\* `t < 0.` on f32: false for NaN.
IsNegative(t) == ~t.nan /\ t.num < 0

\* ------------------------------------------------- nested hyper-parameters
\* liblinear::HyperParam::validate and cluster::HyperParam::validate are
\* defined outside model/train.rs; they follow the bounds of the
\* specification's section 6.
LinearValidate(l) ==
    IF l.C <= 0 THEN [ok |-> FALSE, msg |-> "C must be positive"]
    ELSE IF l.epsilon <= 0 THEN [ok |-> FALSE, msg |-> "epsilon must be positive"]
    ELSE IF l.max_iter <= 0 THEN [ok |-> FALSE, msg |-> "max_iter must be positive"]
    ELSE IF l.weight_threshold < 0
         THEN [ok |-> FALSE, msg |-> "weight_threshold must be non-negative"]
    ELSE [ok |-> TRUE, msg |-> ""]

ClusterValidate(c) ==
    IF c.k_means_max_iter <= 0
    THEN [ok |-> FALSE, msg |-> "k_means_max_iter must be positive"]
    ELSE IF c.epsilon <= 0 THEN [ok |-> FALSE, msg |-> "epsilon must be positive"]
    ELSE [ok |-> TRUE, msg |-> ""]

\* --------------------------------------------------- HyperParam::validate
Ok == [ok |-> TRUE, msg |-> ""]
\* The message without its formatted value: it names the bound.
Err(m) == [ok |-> FALSE, msg |-> m]

\* Faulty variant of validate: the max_depth check left out.
validate_no_depth(hp) ==
    IF hp.n_trees = 0 THEN Err("n_trees must be positive")
    ELSE IF hp.min_branch_size <= 1
         THEN Err("min_branch_size must be greater than 1")
    ELSE IF IsNegative(hp.centroid_threshold)
         THEN Err("centroid_threshold must be non-negative")
    ELSE IF ~LinearValidate(hp.linear).ok
         THEN Err("Invalid liblinear hyper-parameter")
    ELSE IF ~ClusterValidate(hp.cluster).ok
         THEN Err("Invalid clustering hyper-parameter")
    ELSE Ok

validate(hp) ==
    IF hp.n_trees = 0 THEN Err("n_trees must be positive")
    ELSE IF hp.min_branch_size <= 1
         THEN Err("min_branch_size must be greater than 1")
    ELSE IF IsNegative(hp.centroid_threshold)
         THEN Err("centroid_threshold must be non-negative")
    ELSE IF hp.max_depth = 0 THEN Err("max_depth must be positive")
    ELSE IF ~LinearValidate(hp.linear).ok
         THEN Err("Invalid liblinear hyper-parameter")
    ELSE IF ~ClusterValidate(hp.cluster).ok
         THEN Err("Invalid clustering hyper-parameter")
    ELSE Ok

\* ------------------------------------------------------- small utilities
Range(s) == {s[i] : i \in DOMAIN s}

Min(S) == CHOOSE x \in S : \A y \in S : x <= y

RECURSIVE SortedSeq(_)
\* The elements of a finite set of integers, ascending.
SortedSeq(S) ==
    IF S = {} THEN <<>> ELSE <<Min(S)>> \o SortedSeq(S \ {Min(S)})

RECURSIVE SumSeq(_)
SumSeq(s) == IF s = <<>> THEN 0 ELSE s[1] + SumSeq(Tail(s))

\* Largest r with r * r <= n.
ISqrt(n) == CHOOSE r \in 0 .. n : r * r <= n /\ (r + 1) * (r + 1) > n

\* An IndexValueVec is a sequence of <<index, value>> pairs.
Indices(v) == {v[i][1] : i \in DOMAIN v}

\* ------------------------------------------------ sparse matrix utilities
\* crate::mat_util is defined outside model/train.rs; these follow the
\* contracts of the specification's section 4.A.  A matrix is
\* [rows, cols]: rows a sequence of rows, a row a function from the column
\* indices it stores to their values.

\* csrmat_from_index_value_pair_lists(lists, n_cols)
csrmat_from_index_value_pair_lists(lists, n_cols) ==
    [rows |-> [r \in DOMAIN lists |->
                 [c \in Indices(lists[r]) |->
                    LET i == CHOOSE i \in DOMAIN lists[r] : lists[r][i][1] = c
                    IN  lists[r][i][2]]],
     cols |-> n_cols]

\* copy_outer_dims(rows): row j of the result is row rows[j] (0-based) of m;
\* the column count is unchanged.
copy_outer_dims(m, indices) ==
    [rows |-> [j \in DOMAIN indices |-> m.rows[indices[j] + 1]],
     cols |-> m.cols]

\* shrink_column_indices(): drops the columns no row stores; returns the
\* compacted matrix and old_col_of[new_col], order of columns preserved.
shrink_column_indices(m) ==
    LET used == UNION {DOMAIN m.rows[r] : r \in DOMAIN m.rows}
        old_col_of == SortedSeq(used)
        new_col(c) == Cardinality({u \in used : u < c})
    IN  << [rows |-> [r \in DOMAIN m.rows |->
                        [k \in {new_col(c) : c \in DOMAIN m.rows[r]} |->
                           m.rows[r][old_col_of[k + 1]]]],
            cols |-> Len(old_col_of)],
           old_col_of >>

\* A real number num / sqrt(n2), kept exactly.  Real(x) is the f32 that the
\* fixed-point x stands for; Fixed(r) is back, rounding down.
Real(x) == [num |-> x, n2 |-> One * One]
Fixed(r) == (r.num * One) \div ISqrt(r.n2)

SumSquares(v) == SumSeq([i \in DOMAIN v |-> v[i][2].num * v[i][2].num])

\* l2_normalize on a vector of reals with a common n2: every value divided
\* by the L2 norm; the vector becomes empty when the norm is 0.
l2_normalize(v) ==
    IF SumSquares(v) = 0 THEN <<>>
    ELSE [i \in DOMAIN v |-> <<v[i][1], [num |-> v[i][2].num, n2 |-> SumSquares(v)]>>]

\* |x| < t on f32, t the rational num/den or NaN (every comparison false).
AbsLess(x, t) ==
    /\ ~t.nan
    /\ t.num > 0
    /\ x.num * x.num * t.den * t.den < t.num * t.num * x.n2

\* prune_with_threshold(t): drops every (idx, val) with |val| < t.
prune_with_threshold(v, t) == SelectSeq(v, LAMBDA p : ~AbsLess(p[2], t))

\* sort_by_index: the pairs ascending by index (indices distinct).
sort_by_index(v) ==
    [k \in DOMAIN v |->
        CHOOSE p \in Range(v) : Cardinality({q \in Range(v) : q[1] < p[1]}) = k - 1]

\* ------------------------------------------------------- TrainingExamples
\* TrainingExamples::new: the three assertions, then the struct.  A failed
\* assertion is recorded in `panic` (the call panics).
TrainingExamples_new(feature_matrix, index_to_feature, label_sets) ==
    [feature_matrix |-> feature_matrix,
     index_to_feature |-> index_to_feature,
     label_sets |-> label_sets,
     panic |-> IF Len(feature_matrix.rows) # Len(label_sets) THEN "rows"
               ELSE IF label_sets = <<>> THEN "empty"
               ELSE IF feature_matrix.cols # Len(index_to_feature) THEN "cols"
               ELSE ""]

NoExamples == TrainingExamples_new([rows |-> <<>>, cols |-> 0], <<>>, <<>>)

\* Faulty variant of new_from_dataset: the bias term not appended.
TrainingExamples_new_from_dataset_no_bias(ds) ==
    LET feature_matrix ==
            csrmat_from_index_value_pair_lists(ds.feature_lists, ds.n_features + 1)
        index_to_feature == [k \in 1 .. feature_matrix.cols |-> k - 1]
    IN  TrainingExamples_new(feature_matrix, index_to_feature, ds.label_sets)

\* TrainingExamples::new_from_dataset
TrainingExamples_new_from_dataset(ds) ==
    LET bias_index == ds.n_features
        feature_lists == [i \in DOMAIN ds.feature_lists |->
                            Append(ds.feature_lists[i], <<bias_index, One>>)]
        feature_matrix ==
            csrmat_from_index_value_pair_lists(feature_lists, ds.n_features + 1)
        index_to_feature == [k \in 1 .. feature_matrix.cols |-> k - 1]
    IN  TrainingExamples_new(feature_matrix, index_to_feature, ds.label_sets)

\* TrainingExamples::len
TrainingExamples_len(te) == Len(te.feature_matrix.rows)

\* TrainingExamples::n_features
TrainingExamples_n_features(te) == te.feature_matrix.cols

\* Faulty variant of find_examples_with_label: the rows counted from 1.
find_examples_with_label_one_based(te, label) ==
    SortedSeq({j \in DOMAIN te.label_sets : label \in te.label_sets[j]})

\* TrainingExamples::find_examples_with_label: 0-based rows, ascending.
find_examples_with_label(te, label) ==
    SortedSeq({i - 1 : i \in {j \in DOMAIN te.label_sets : label \in te.label_sets[j]}})

\* Faulty variant of find_examples_with_labels: the rows carrying every label.
find_examples_with_all_labels(te, labels) ==
    SortedSeq({i - 1 : i \in {j \in DOMAIN te.label_sets :
                                Range(labels) # {} /\ Range(labels) \subseteq te.label_sets[j]}})

\* TrainingExamples::find_examples_with_labels: the rows whose label set is
\* not disjoint from `labels`.
find_examples_with_labels(te, labels) ==
    SortedSeq({i - 1 : i \in {j \in DOMAIN te.label_sets :
                                te.label_sets[j] \cap Range(labels) # {}}})

\* Faulty variant of take_examples_by_indices: the parent's index_to_feature
\* kept as it is.
take_examples_by_indices_stale_map(te, indices) ==
    LET shrunk == shrink_column_indices(copy_outer_dims(te.feature_matrix, indices))
        new_label_sets == [j \in DOMAIN indices |-> te.label_sets[indices[j] + 1]]
    IN  TrainingExamples_new(shrunk[1], te.index_to_feature, new_label_sets)

\* Faulty variant of take_examples_by_indices: the new map not composed through
\* the parent's.
take_examples_by_indices_local(te, indices) ==
    LET shrunk == shrink_column_indices(copy_outer_dims(te.feature_matrix, indices))
        new_label_sets == [j \in DOMAIN indices |-> te.label_sets[indices[j] + 1]]
    IN  TrainingExamples_new(shrunk[1], shrunk[2], new_label_sets)

\* TrainingExamples::take_examples_by_indices
take_examples_by_indices(te, indices) ==
    LET shrunk == shrink_column_indices(copy_outer_dims(te.feature_matrix, indices))
        new_index_to_feature ==
            [k \in DOMAIN shrunk[2] |-> te.index_to_feature[shrunk[2][k] + 1]]
        new_label_sets == [j \in DOMAIN indices |-> te.label_sets[indices[j] + 1]]
    IN  TrainingExamples_new(shrunk[1], new_index_to_feature, new_label_sets)

\* ----------------------------------------------------------- LabelCluster
\* LabelCluster::new: the two assertions, then the struct.
LabelCluster_new(labels, feature_matrix) ==
    [labels |-> labels,
     feature_matrix |-> feature_matrix,
     panic |-> IF Len(labels) # Len(feature_matrix.rows) THEN "rows"
               ELSE IF labels = <<>> THEN "empty"
               ELSE ""]

\* The labels that are keys of label_to_feature_to_sum, and for a label the
\* features that are keys of its feature_to_sum.
LabelKeys(ds) == UNION Range(ds.label_sets)
FeatureKeys(ds, label) ==
    UNION {Indices(ds.feature_lists[i]) :
             i \in {j \in DOMAIN ds.label_sets : label \in ds.label_sets[j]}}

ValueOf(v, f) ==
    IF f \in Indices(v) THEN (CHOOSE p \in Range(v) : p[1] = f)[2] ELSE 0

\* feature_to_sum[feature] of a label, after the accumulation loop.
FeatureSum(ds, label, f) ==
    SumSeq([i \in DOMAIN ds.feature_lists |->
              IF label \in ds.label_sets[i] THEN ValueOf(ds.feature_lists[i], f) ELSE 0])

Perms(S) == {s \in [1 .. Cardinality(S) -> S] : Range(s) = S}

RECURSIVE FeatureOrders(_, _)
FeatureOrders(ds, L) ==
    IF L = {} THEN {<<>>}
    ELSE LET l == Min(L)
         IN  {(l :> p) @@ g : p \in Perms(FeatureKeys(ds, l)),
                              g \in FeatureOrders(ds, L \ {l})}

\* The orders in which into_iter() may walk the hash maps: one order of the
\* labels, and for each label one order of its features.
HashOrders(ds) ==
    [labels : Perms(LabelKeys(ds)), features : FeatureOrders(ds, LabelKeys(ds))]

\* Faulty variant of compute_label_centroids: the sums not normalised.
compute_label_centroids_unnormalized(ds, threshold, orders) ==
    LET centroid(label) ==
            LET fs == orders.features[label]
                v == [k \in DOMAIN fs |-> <<fs[k], Real(FeatureSum(ds, label, fs[k]))>>]
            IN  sort_by_index(prune_with_threshold(v, threshold))
    IN  [labels |-> orders.labels,
         vecs |-> [k \in DOMAIN orders.labels |-> centroid(orders.labels[k])]]

\* Faulty variant of compute_label_centroids: pruned before it is normalised.
compute_label_centroids_prune_first(ds, threshold, orders) ==
    LET centroid(label) ==
            LET fs == orders.features[label]
                v == [k \in DOMAIN fs |-> <<fs[k], Real(FeatureSum(ds, label, fs[k]))>>]
            IN  sort_by_index(l2_normalize(prune_with_threshold(v, threshold)))
    IN  [labels |-> orders.labels,
         vecs |-> [k \in DOMAIN orders.labels |-> centroid(orders.labels[k])]]

\* LabelCluster::compute_label_centroids, the hash maps walked in `orders`.
compute_label_centroids(ds, threshold, orders) ==
    LET centroid(label) ==
            LET fs == orders.features[label]
                v == [k \in DOMAIN fs |-> <<fs[k], Real(FeatureSum(ds, label, fs[k]))>>]
            IN  sort_by_index(prune_with_threshold(l2_normalize(v), threshold))
    IN  [labels |-> orders.labels,
         vecs |-> [k \in DOMAIN orders.labels |-> centroid(orders.labels[k])]]

\* LabelCluster::new_from_dataset
LabelCluster_new_from_dataset(ds, centroid_threshold, orders) ==
    LET c == compute_label_centroids(ds, centroid_threshold, orders)
    IN  LabelCluster_new(c.labels,
                         csrmat_from_index_value_pair_lists(c.vecs, ds.n_features))

\* Faulty variant of LabelCluster::len: the columns counted.
LabelCluster_len_cols(lc) == lc.feature_matrix.cols

\* LabelCluster::len
LabelCluster_len(lc) == Len(lc.feature_matrix.rows)

\* Faulty variant of take_labels_by_indices: every new label read at indices[0].
take_labels_by_indices_first_label(lc, indices) ==
    LET new_labels == [j \in DOMAIN indices |-> lc.labels[indices[1] + 1]]
        shrunk == shrink_column_indices(copy_outer_dims(lc.feature_matrix, indices))
    IN  LabelCluster_new(new_labels, shrunk[1])

\* Faulty variant of take_labels_by_indices: the columns not shrunk.
take_labels_by_indices_not_shrunk(lc, indices) ==
    LET new_labels == [j \in DOMAIN indices |-> lc.labels[indices[j] + 1]]
    IN  LabelCluster_new(new_labels, copy_outer_dims(lc.feature_matrix, indices))

\* LabelCluster::take_labels_by_indices
take_labels_by_indices(lc, indices) ==
    LET new_labels == [j \in DOMAIN indices |-> lc.labels[indices[j] + 1]]
        shrunk == shrink_column_indices(copy_outer_dims(lc.feature_matrix, indices))
    IN  LabelCluster_new(new_labels, shrunk[1])

\* Two rows hold the same real vector.
SameRow(a, b) ==
    /\ DOMAIN a = DOMAIN b
    /\ \A c \in DOMAIN a :
          /\ (a[c].num >= 0) = (b[c].num >= 0)
          /\ a[c].num * a[c].num * b[c].n2 = b[c].num * b[c].num * a[c].n2

\* cluster::HyperParam::train is defined outside model/train.rs; it follows
\* the specification's section 4.C.  The clusterings it may return for a
\* centroid matrix: the single cluster of all rows when the rows are
\* identical or there is at most one; otherwise two clusters of row indices
\* (0-based, ascending) that partition the rows and differ in size by at
\* most 1.
cluster_train(m) ==
    LET n == Len(m.rows)
        all == 0 .. n - 1
    IN  IF n <= 1 \/ \A r \in 1 .. n : SameRow(m.rows[r], m.rows[1])
        THEN {<<SortedSeq(all)>>}
        ELSE {<<SortedSeq(A), SortedSeq(all \ A)>> :
                A \in {B \in SUBSET all :
                         /\ 2 * Cardinality(B) - n \in {-1, 0, 1}}}

None == [some |-> FALSE, value |-> <<>>]
Some(v) == [some |-> TRUE, value |-> v]

\* LabelCluster::split, `clusters` being what the clusterer returned.
split(lc, clusters) ==
    IF Len(clusters) > 1
    THEN Some([k \in DOMAIN clusters |-> take_labels_by_indices(lc, clusters[k])])
    ELSE None


\* ------------------------------------------------------------ TreeTrainer
\* TreeTrainer::initialize, lines 109-112: every feature list L2-normalised.
normalize_feature_lists(ds) ==
    [ds EXCEPT !.feature_lists =
        [i \in DOMAIN ds.feature_lists |->
            LET v == l2_normalize([k \in DOMAIN ds.feature_lists[i] |->
                        <<ds.feature_lists[i][k][1], Real(ds.feature_lists[i][k][2])>>])
            IN  [k \in DOMAIN v |-> <<v[k][1], Fixed(v[k][2])>>]]]

\* create_progress_bar(total), behind its mutex.
create_progress_bar(total) ==
    [created |-> TRUE, counter |-> 0, total |-> total, locked |-> FALSE, holder |-> <<>>]

\* Faulty variant of unlock: the lock kept.
unlock_never(pb) == pb

\* The MutexGuard of a `progress_bar.lock()...;` statement dropped at the end
\* of the statement (lines 160-163, 254-257): the lock released.
unlock(pb) == [pb EXCEPT !.locked = FALSE, !.holder = <<>>]

NoProgressBar ==
    [created |-> FALSE, counter |-> 0, total |-> 0, locked |-> FALSE, holder |-> <<>>]

NoCluster == LabelCluster_new(<<>>, [rows |-> <<>>, cols |-> 0])

NoHyperParam ==
    [n_trees |-> 0, min_branch_size |-> 0, max_depth |-> 0,
     centroid_threshold |-> Rat(0, 1),
     linear |-> [C |-> 0, epsilon |-> 0, max_iter |-> 0, weight_threshold |-> 0],
     cluster |-> [k_means_max_iter |-> 0, epsilon |-> 0]]

NoTrainer ==
    [created |-> FALSE, all_examples |-> NoExamples, all_labels |-> NoCluster,
     hyper_param |-> NoHyperParam, panic |-> ""]

\* TreeTrainer::initialize without its progress bar (kept in progress_bar);
\* `panic` names the assertion that failed, if one did.
initialize(ds, hp, orders) ==
    LET trainer_of(normalized) ==
            LET all_labels ==
                    LabelCluster_new_from_dataset(normalized, hp.centroid_threshold, orders)
                all_examples == TrainingExamples_new_from_dataset(normalized)
            IN  [created |-> TRUE,
                 all_examples |-> all_examples,
                 all_labels |-> all_labels,
                 hyper_param |-> hp,
                 panic |-> IF Len(ds.feature_lists) # Len(ds.label_sets) THEN "dataset"
                           ELSE IF all_labels.panic # "" THEN "all_labels"
                           ELSE IF all_examples.panic # "" THEN "all_examples"
                           ELSE ""]
    IN  CHOOSE t \in {trainer_of(normalized) :
                        normalized \in {normalize_feature_lists(ds)}} : TRUE

\* liblinear::HyperParam::train is defined outside model/train.rs; by the
\* specification's section 4.B it fits one output per positives list.  The
\* classifier is kept as what it was trained on.
liblinear_train(te, label_to_example_indices) ==
    [trained |-> TRUE,
     positives |-> label_to_example_indices,
     n_examples |-> TrainingExamples_len(te)]

NoClassifier == [trained |-> FALSE, positives |-> <<>>, n_examples |-> 0]

\* TreeNode::LeafNode, TreeNode::BranchNode
LeafNode(classifier, labels) ==
    [type |-> "Leaf", classifier |-> classifier, labels |-> labels, children |-> <<>>]
BranchNode(classifier, children) ==
    [type |-> "Branch", classifier |-> classifier, labels |-> <<>>, children |-> children]
NoNode == [type |-> "None", classifier |-> NoClassifier, labels |-> <<>>, children |-> <<>>]

\* Faulty variant of validate_unwrap: the result of validate() ignored.
validate_unwrap_ignoring(hp) == TRUE

\* HyperParam::train, line 72: whether validate().unwrap() returns.
validate_unwrap(hp) == validate(hp).ok

\* Faulty variant of should_branch: depth <= max_depth.
should_branch_inclusive(depth, label_cluster, hp) ==
    depth <= hp.max_depth /\ LabelCluster_len(label_cluster) >= hp.min_branch_size

\* train_subtree, lines 155-156: whether a split is attempted.
should_branch(depth, label_cluster, hp) ==
    depth < hp.max_depth /\ LabelCluster_len(label_cluster) >= hp.min_branch_size

\* Faulty variant of example_index_lists_of: the first label of every
\* sub-cluster looked up only.
example_index_lists_of_first_label(examples, label_clusters) ==
    [k \in DOMAIN label_clusters |->
        find_examples_with_label(examples, label_clusters[k].labels[1])]

\* train_subtree, lines 167-170: the example index list of every sub-cluster.
example_index_lists_of(examples, label_clusters) ==
    [k \in DOMAIN label_clusters |->
        find_examples_with_labels(examples, label_clusters[k].labels)]

\* Faulty variant of collect: the results last position first.
collect_reversed(results, finished) ==
    [k \in DOMAIN results |-> results[Len(results) + 1 - k]]

\* Faulty variant of collect: the results in the order the tasks completed.
collect_as_completed(results, finished) ==
    [k \in DOMAIN finished |-> results[finished[k]]]

\* The collect() of an indexed parallel iterator: the results by position,
\* whatever the order `finished` in which the tasks completed.
collect(results, finished) == [k \in DOMAIN results |-> results[k]]

\* A train_subtree call: its arguments and how far it has come.
\*   pc      "start", "unlock_total" (the lock held for total +=), "forked",
\*           "leaf", "done", "panicked"
\*   clf_pc  where the call of train_classifier is: "none", "train",
\*           "unlock_add" (the lock held for add), "done"
NewCall(depth, examples, label_cluster) ==
    [pc |-> "start", depth |-> depth,
     examples |-> examples, label_cluster |-> label_cluster,
     label_clusters |-> <<>>, example_index_lists |-> <<>>,
     clf_pc |-> "none", classifier |-> NoClassifier,
     child_pc |-> <<>>, results |-> <<>>, finished |-> <<>>,
     result |-> NoNode]

\* The Arc a call's `examples` / `label_cluster` handle points to: the
\* trainer's for a root call, else the one made for this call.
RootArc == <<0, <<>>>>
ArcOf(id) == IF id[2] = <<>> THEN RootArc ELSE id
Child(id, k) == <<id[1], Append(id[2], k)>>
Parent(id) == <<id[1], SubSeq(id[2], 1, Len(id[2]) - 1)>>
Position(id) == id[2][Len(id[2])]

\* ---------------------------------------------------------- input spaces
LinearSpace ==
    [C : {0, 1}, epsilon : {0, 1}, max_iter : {0, 1}, weight_threshold : {-1, 0}]
ClusterSpace == [k_means_max_iter : {0, 1}, epsilon : {0, 1}]
ThresholdSpace == {Rat(-1, 4), Rat(0, 1), Rat(1, 4), NaN}

HyperParamSpace ==
    [n_trees : 0 .. ValMax, min_branch_size : 0 .. ValMax + 1,
     max_depth : 0 .. ValMax, centroid_threshold : ThresholdSpace,
     linear : LinearSpace, cluster : ClusterSpace]

ValidLinear == [C |-> 1, epsilon |-> 1, max_iter |-> 1, weight_threshold |-> 0]
ValidCluster == [k_means_max_iter |-> 1, epsilon |-> 1]

\* HyperParam::default, lines 25-36
DefaultHyperParam ==
    [n_trees |-> 3, min_branch_size |-> 100, max_depth |-> 20,
     centroid_threshold |-> Rat(0, 1),
     linear |-> ValidLinear, cluster |-> ValidCluster]

\* Raw feature values 3.0 and 4.0.
RawValues == {3 * One, 4 * One}

\* The feature lists over features 0 .. NFeatures - 1, sorted by index, whose
\* L2 normalisation is exact in units of 1/One.
FeatureLists ==
    LET lists == UNION {
            {[k \in 1 .. Cardinality(S) |-> <<SortedSeq(S)[k], f[SortedSeq(S)[k]]>>] :
                f \in [S -> RawValues]} : S \in SUBSET (0 .. NFeatures - 1)}
        n2(v) == SumSeq([i \in DOMAIN v |-> v[i][2] * v[i][2]])
        exact(v) == /\ ISqrt(n2(v)) * ISqrt(n2(v)) = n2(v)
                    /\ \A i \in DOMAIN v : (v[i][2] * One) % ISqrt(n2(v)) = 0
    IN  {v \in lists : v = <<>> \/ exact(v)}

DataSetsOver(feature_lists, label_sets, sizes) ==
    UNION {[n_features : {NFeatures}, n_labels : {NLabels},
            feature_lists : [1 .. n -> feature_lists],
            label_sets : [1 .. n -> label_sets]] : n \in sizes}

NoDataSet == [n_features |-> 0, n_labels |-> 0, feature_lists |-> <<>>, label_sets |-> <<>>]

NoTrees == [results |-> <<>>, finished |-> <<>>]
NoArcs == [examples |-> <<>>, label_cluster |-> <<>>]
NoModel == [returned |-> FALSE, trees |-> <<>>, n_features |-> 0]

ValidateIdle == vres = Pending
ChainIdle == chain_te = NoExamples /\ chain_rows = <<>> /\ chain_takes = -1
CentroidsIdle == cent_pc = "idle" /\ cent = [labels |-> <<>>, vecs |-> <<>>]
TrainIdle ==
    /\ phase = "idle"
    /\ trainer = NoTrainer
    /\ progress_bar = NoProgressBar
    /\ nodes = <<>>
    /\ trees = NoTrees
    /\ arcs = NoArcs
    /\ model = NoModel

\* =================================================================== Spec
\* HyperParam::train on every scenario of Scenarios: validation,
\* initialisation, then the tree tasks, their sibling tasks and their
\* classifier tasks in every interleaving.
\* The valid HyperParams of the scenarios: one tree of any depth up to
\* MaxDepth, or several trees of depth 1.
ValidHyperParams ==
    {hp \in [n_trees : 1 .. MaxTrees, min_branch_size : {2, 3},
             max_depth : 1 .. MaxDepth, centroid_threshold : {Rat(0, 1)},
             linear : {ValidLinear}, cluster : {ValidCluster}] :
        hp.n_trees = 1 \/ hp.max_depth = 1}

\* One HyperParam for every bound of validate, violating that bound only.
InvalidHyperParams ==
    LET hp == [n_trees |-> 1, min_branch_size |-> 2, max_depth |-> 2,
               centroid_threshold |-> Rat(0, 1),
               linear |-> ValidLinear, cluster |-> ValidCluster]
    IN  {[hp EXCEPT !.n_trees = 0], [hp EXCEPT !.min_branch_size = 1],
         [hp EXCEPT !.centroid_threshold = Rat(-1, 4)], [hp EXCEPT !.max_depth = 0],
         [hp EXCEPT !.linear.C = 0], [hp EXCEPT !.cluster.epsilon = 0]}

\* Example 1 stores every feature (3.0, 4.0, 3.0, ...), example i > 1 only
\* feature (i - 1) % NFeatures.
TrainFeatures(i) ==
    IF i = 1
    THEN [k \in 1 .. NFeatures |-> <<k - 1, IF k % 2 = 1 THEN 3 * One ELSE 4 * One>>]
    ELSE << <<(i - 1) % NFeatures, 4 * One>> >>

\* The label sets of example i: none, {0} or {0, 1} for example 1, and {0} or
\* the last two labels for the others.
TrainLabelSets(i) ==
    IF i = 1 THEN {{}, {0}, {0, 1}} ELSE {{0}, {NLabels - 2, NLabels - 1}}

TrainDataSets ==
    UNION {[n_features : {NFeatures}, n_labels : {NLabels},
            feature_lists : {[i \in 1 .. n |-> TrainFeatures(i)]},
            label_sets : {ls \in [1 .. n -> SUBSET (0 .. NLabels - 1)] :
                            \A i \in 1 .. n : ls[i] \in TrainLabelSets(i)}] :
           n \in 1 .. MaxExamples}

Scenarios == (ValidHyperParams \cup InvalidHyperParams) \X TrainDataSets

Init ==
    /\ \E s \in Scenarios : hyper_param = s[1] /\ dataset = s[2]
    /\ ValidateIdle
    /\ ChainIdle
    /\ CentroidsIdle
    /\ phase = "start"
    /\ trainer = NoTrainer
    /\ progress_bar = NoProgressBar
    /\ nodes = <<>>
    /\ trees = NoTrees
    /\ arcs = NoArcs
    /\ model = NoModel

otherVars == <<hyper_param, vres, dataset, chainVars, centVars>>

\* train, line 72: self.validate().unwrap()
TrainValidate ==
    /\ phase = "start"
    /\ phase' = IF validate_unwrap(hyper_param) THEN "validated" ELSE "panicked"
    /\ UNCHANGED <<otherVars, trainer, progress_bar, nodes, trees, arcs, model>>

\* train, line 79: TreeTrainer::initialize(dataset, *self)
TrainInitialize ==
    /\ phase = "validated"
    /\ \E normalized \in {normalize_feature_lists(dataset)} :
       \E orders \in HashOrders(normalized) :
          \E t \in {initialize(dataset, hyper_param, orders)} :
          /\ trainer' = t
          /\ IF t.panic # ""
             THEN /\ phase' = "panicked"
                  /\ UNCHANGED <<progress_bar, trees, arcs>>
             ELSE /\ phase' = "trees"
                  /\ progress_bar' = create_progress_bar(
                         LabelCluster_len(t.all_labels) * hyper_param.n_trees)
                  /\ trees' = [results |-> [i \in 1 .. hyper_param.n_trees |-> NoNode],
                               finished |-> <<>>]
                  /\ arcs' = [examples |-> (RootArc :> 1), label_cluster |-> (RootArc :> 1)]
    /\ UNCHANGED <<otherVars, nodes, model>>

\* TreeTrainer::train, lines 141-145, as tree task t starts: the call
\* train_subtree(1, all_examples.clone(), all_labels.clone()).
TreeStart(t) ==
    /\ phase = "trees"
    /\ t \in 1 .. trainer.hyper_param.n_trees
    /\ <<t, <<>>>> \notin DOMAIN nodes
    /\ nodes' = nodes @@ (<<t, <<>>>> :> NewCall(1, trainer.all_examples, trainer.all_labels))
    /\ arcs' = [examples |-> [arcs.examples EXCEPT ![RootArc] = @ + 1],
                label_cluster |-> [arcs.label_cluster EXCEPT ![RootArc] = @ + 1]]
    /\ UNCHANGED <<otherVars, phase, trainer, progress_bar, trees, model>>

\* train_subtree, lines 155-163 and 200 with 230-233: the branch-or-leaf
\* decision, `clusters` being what the clusterer returns for this cluster.
\* A branch goes on to take the lock of the progress bar for
\* total += label_clusters.len(), and waits here until the lock is free.
TrainSubtree(id) ==
    /\ phase = "trees"
    /\ id \in DOMAIN nodes
    /\ nodes[id].pc = "start"
    /\ LET n == nodes[id]
           leaf == [n EXCEPT !.pc = "leaf", !.clf_pc = "train",
                             !.example_index_lists =
                                 [k \in DOMAIN n.label_cluster.labels |->
                                    find_examples_with_label(n.examples,
                                                             n.label_cluster.labels[k])]]
           branches == should_branch(n.depth, n.label_cluster, trainer.hyper_param)
       IN  \E clusters \in IF branches THEN cluster_train(n.label_cluster.feature_matrix)
                           ELSE {<<>>} :
              LET sub == IF branches THEN split(n.label_cluster, clusters) ELSE None IN
              IF sub.some
              THEN IF Len(sub.value) <= 1
                      \/ \E k \in DOMAIN sub.value : sub.value[k].panic # ""
                   THEN /\ nodes' = [nodes EXCEPT ![id] =
                                       [n EXCEPT !.pc = "panicked",
                                                 !.label_clusters = sub.value]]
                        /\ phase' = "panicked"
                        /\ UNCHANGED progress_bar
                   ELSE /\ ~progress_bar.locked
                        /\ nodes' = [nodes EXCEPT ![id] =
                                       [n EXCEPT !.pc = "unlock_total",
                                                 !.label_clusters = sub.value]]
                        /\ progress_bar' = [progress_bar EXCEPT
                                               !.locked = TRUE, !.holder = id,
                                               !.total = @ + Len(sub.value)]
                        /\ phase' = phase
              ELSE /\ nodes' = [nodes EXCEPT ![id] = leaf]
                   /\ phase' = phase
                   /\ UNCHANGED progress_bar
    /\ UNCHANGED <<otherVars, trainer, trees, arcs, model>>

\* train_subtree, lines 163-190: the lock released at the end of the
\* statement, drop(label_cluster), the example index lists, and the fork of
\* the children task (which clones `examples` for every child) and the
\* classifier task (which keeps the call's own handle).
ForkBranch(id) ==
    /\ phase = "trees"
    /\ id \in DOMAIN nodes
    /\ nodes[id].pc = "unlock_total"
    /\ progress_bar' = unlock(progress_bar)
    /\ LET n == nodes[id]
           k == Len(n.label_clusters)
       IN  /\ nodes' = [nodes EXCEPT ![id] =
                          [n EXCEPT !.pc = "forked", !.clf_pc = "train",
                                    !.example_index_lists =
                                        example_index_lists_of(n.examples, n.label_clusters),
                                    !.child_pc = [i \in 1 .. k |-> "take"],
                                    !.results = [i \in 1 .. k |-> NoNode]]]
           /\ arcs' = [examples |-> [arcs.examples EXCEPT ![ArcOf(id)] = @ + k],
                       label_cluster |-> [arcs.label_cluster EXCEPT ![ArcOf(id)] = @ - 1]]
    /\ UNCHANGED <<otherVars, phase, trainer, trees, model>>

\* Faulty variant of TakeExamples: the handle on the parent's examples kept
\* while the child recurses.
TakeExamples_keeping_handle(id, k) ==
    /\ phase = "trees"
    /\ id \in DOMAIN nodes
    /\ nodes[id].pc = "forked"
    /\ k \in DOMAIN nodes[id].child_pc
    /\ nodes[id].child_pc[k] = "take"
    /\ \E cluster_examples \in {take_examples_by_indices(nodes[id].examples,
                                                         nodes[id].example_index_lists[k])} :
       LET n == nodes[id]
           call == NewCall(n.depth + 1, cluster_examples, n.label_clusters[k])
       IN  /\ nodes' = [nodes EXCEPT ![id].child_pc[k] = "called"]
                          @@ (Child(id, k) :>
                                IF cluster_examples.panic # ""
                                THEN [call EXCEPT !.pc = "panicked"] ELSE call)
           /\ phase' = IF cluster_examples.panic # "" THEN "panicked" ELSE phase
           /\ arcs' = [examples |-> arcs.examples @@ (Child(id, k) :> 1),
                       label_cluster |-> arcs.label_cluster @@ (Child(id, k) :> 1)]
    /\ UNCHANGED <<otherVars, trainer, progress_bar, trees, model>>

\* train_child_nodes, lines 216-223, for child k: its examples taken, the
\* parent's handle dropped, and train_subtree(depth + 1, ...) called.
TakeExamples(id, k) ==
    /\ phase = "trees"
    /\ id \in DOMAIN nodes
    /\ nodes[id].pc = "forked"
    /\ k \in DOMAIN nodes[id].child_pc
    /\ nodes[id].child_pc[k] = "take"
    /\ \E cluster_examples \in {take_examples_by_indices(nodes[id].examples,
                                                         nodes[id].example_index_lists[k])} :
       LET n == nodes[id]
           call == NewCall(n.depth + 1, cluster_examples, n.label_clusters[k])
       IN  /\ nodes' = [nodes EXCEPT ![id].child_pc[k] = "called"]
                          @@ (Child(id, k) :>
                                IF cluster_examples.panic # ""
                                THEN [call EXCEPT !.pc = "panicked"] ELSE call)
           /\ phase' = IF cluster_examples.panic # "" THEN "panicked" ELSE phase
           /\ arcs' = [examples |-> [arcs.examples EXCEPT ![ArcOf(id)] = @ - 1]
                                        @@ (Child(id, k) :> 1),
                       label_cluster |-> arcs.label_cluster @@ (Child(id, k) :> 1)]
    /\ UNCHANGED <<otherVars, trainer, progress_bar, trees, model>>

\* Faulty variant of TrainClassifier: add(examples.len()).
TrainClassifier_counting_examples(id) ==
    /\ phase = "trees"
    /\ id \in DOMAIN nodes
    /\ nodes[id].clf_pc = "train"
    /\ ~progress_bar.locked
    /\ nodes' = [nodes EXCEPT ![id].clf_pc = "unlock_add",
                              ![id].classifier =
                                  liblinear_train(nodes[id].examples,
                                                  nodes[id].example_index_lists)]
    /\ progress_bar' = [progress_bar EXCEPT
                           !.locked = TRUE, !.holder = id,
                           !.counter = @ + TrainingExamples_len(nodes[id].examples)]
    /\ UNCHANGED <<otherVars, phase, trainer, trees, arcs, model>>

\* train_classifier, lines 247-257: the classifier trained on the call's
\* examples and its example index lists, then the lock of the progress bar
\* taken (waited for until it is free) for add(label_to_example_indices.len()).
TrainClassifier(id) ==
    /\ phase = "trees"
    /\ id \in DOMAIN nodes
    /\ nodes[id].clf_pc = "train"
    /\ ~progress_bar.locked
    /\ nodes' = [nodes EXCEPT ![id].clf_pc = "unlock_add",
                              ![id].classifier =
                                  liblinear_train(nodes[id].examples,
                                                  nodes[id].example_index_lists)]
    /\ progress_bar' = [progress_bar EXCEPT
                           !.locked = TRUE, !.holder = id,
                           !.counter = @ + Len(nodes[id].example_index_lists)]
    /\ UNCHANGED <<otherVars, phase, trainer, trees, arcs, model>>

\* Faulty variant of Returned: the node not handed to the parent's collect().
Returned_unjoined(nds, id, node) ==
    [nds EXCEPT ![id].pc = "done", ![id].result = node]

\* `nds` with call id returned: its node handed to the collect() of its
\* parent's children, or of the trees.
Returned(nds, id, node) ==
    LET done == [nds EXCEPT ![id].pc = "done", ![id].result = node]
    IN  IF id[2] = <<>> THEN done
        ELSE [done EXCEPT ![Parent(id)].results[Position(id)] = node,
                          ![Parent(id)].finished = Append(@, Position(id))]

TreesAfter(id, node) ==
    IF id[2] = <<>>
    THEN [results |-> [trees.results EXCEPT ![id[1]] = node],
          finished |-> Append(trees.finished, id[1])]
    ELSE trees

\* train_classifier, lines 257-260: the lock released and the classifier
\* returned, its `examples` handle dropped.  In a leaf call this ends
\* train_leaf_node (lines 236-239) and train_subtree, whose label_cluster
\* handle is dropped.
UnlockAdd(id) ==
    /\ phase = "trees"
    /\ id \in DOMAIN nodes
    /\ nodes[id].clf_pc = "unlock_add"
    /\ progress_bar' = unlock(progress_bar)
    /\ LET n == nodes[id]
           finished == [nodes EXCEPT ![id].clf_pc = "done"]
           node == LeafNode(n.classifier, n.label_cluster.labels)
       IN  IF n.pc = "leaf"
           THEN /\ nodes' = Returned(finished, id, node)
                /\ trees' = TreesAfter(id, node)
                /\ arcs' = [examples |-> [arcs.examples EXCEPT ![ArcOf(id)] = @ - 1],
                            label_cluster |->
                                [arcs.label_cluster EXCEPT ![ArcOf(id)] = @ - 1]]
           ELSE /\ nodes' = finished
                /\ trees' = trees
                /\ arcs' = [arcs EXCEPT !.examples[ArcOf(id)] = @ - 1]
    /\ UNCHANGED <<otherVars, phase, trainer, model>>

\* train_subtree, lines 172-195: both tasks of rayon::join have returned;
\* the BranchNode is returned.
Join(id) ==
    /\ phase = "trees"
    /\ id \in DOMAIN nodes
    /\ nodes[id].pc = "forked"
    /\ nodes[id].clf_pc = "done"
    /\ Len(nodes[id].finished) = Len(nodes[id].label_clusters)
    /\ LET n == nodes[id]
           node == BranchNode(n.classifier, collect(n.results, n.finished))
       IN  /\ nodes' = Returned(nodes, id, node)
           /\ trees' = TreesAfter(id, node)
    /\ UNCHANGED <<otherVars, phase, trainer, progress_bar, arcs, model>>

\* train, lines 82-91: every tree task has returned; the trees are
\* collected into the Model and the trainer is dropped.
TrainReturn ==
    /\ phase = "trees"
    /\ Len(trees.finished) = trainer.hyper_param.n_trees
    /\ model' = [returned |-> TRUE,
                 trees |-> collect(trees.results, trees.finished),
                 n_features |-> dataset.n_features]
    /\ phase' = "returned"
    /\ arcs' = [examples |-> [arcs.examples EXCEPT ![RootArc] = @ - 1],
                label_cluster |-> [arcs.label_cluster EXCEPT ![RootArc] = @ - 1]]
    /\ UNCHANGED <<otherVars, trainer, progress_bar, nodes, trees>>

NodeIds == DOMAIN nodes

Next ==
    \/ TrainValidate
    \/ TrainInitialize
    \/ \E t \in 1 .. MaxTrees : TreeStart(t)
    \/ \E id \in NodeIds : TrainSubtree(id)
    \/ \E id \in NodeIds : ForkBranch(id)
    \/ \E id \in NodeIds : \E k \in 1 .. NLabels : TakeExamples(id, k)
    \/ \E id \in NodeIds : TrainClassifier(id)
    \/ \E id \in NodeIds : UnlockAdd(id)
    \/ \E id \in NodeIds : Join(id)
    \/ TrainReturn

Spec == Init /\ [][Next]_vars

\* The scenarios of the fair specification: MaxTrees trees of depth 1 or
\* one tree of depth MaxFairDepth, min_branch_size = 2, on the datasets of
\* two examples labelled {0, 1} and {0}, or {0} and the last two labels, and
\* on the dataset of one example that carries no label.
MaxFairDepth == 2

FairScenarios ==
    {s \in ValidHyperParams \X TrainDataSets :
        /\ s[1].min_branch_size = 2
        /\ s[1].max_depth <= MaxFairDepth
        /\ s[1].n_trees = MaxTrees \/ s[1].max_depth = MaxFairDepth
        /\ s[2].label_sets \in {<<{0, 1}, {0}>>, <<{0}, {NLabels - 2, NLabels - 1}>>, <<{}>>}}

InitFair ==
    /\ \E s \in FairScenarios : hyper_param = s[1] /\ dataset = s[2]
    /\ ValidateIdle
    /\ ChainIdle
    /\ CentroidsIdle
    /\ phase = "start"
    /\ trainer = NoTrainer
    /\ progress_bar = NoProgressBar
    /\ nodes = <<>>
    /\ trees = NoTrees
    /\ arcs = NoArcs
    /\ model = NoModel

\* train under a scheduler that keeps running some task as long as one can
\* take a step: rayon's pool runs the tasks that are ready, and a panic ends
\* the run.
FairSpec == InitFair /\ [][Next]_vars /\ WF_vars(Next)
\* =========================================================== SpecValidate
\* validate() applied to every HyperParam of the input space.
InitValidate ==
    /\ hyper_param \in HyperParamSpace
    /\ vres = Pending
    /\ dataset = NoDataSet
    /\ ChainIdle
    /\ CentroidsIdle
    /\ TrainIdle

ValidateCall ==
    /\ vres = Pending
    /\ vres' = validate(hyper_param)
    /\ UNCHANGED <<hyper_param, dataset, chainVars, centVars, trainVars>>

NextValidate == ValidateCall

SpecValidate == InitValidate /\ [][NextValidate]_vars

\* =========================================================== SpecExamples
\* Chains of take_examples_by_indices from new_from_dataset, over every
\* dataset of ChainDataSets and every non-empty index list.
ChainDataSets == DataSetsOver(FeatureLists, {{0}, {0, 1}}, 1 .. MaxExamples)

\* The index lists of length 1 .. MaxExamples over rows 0 .. n - 1.
ChainIndexLists(n) == UNION {[1 .. k -> 0 .. n - 1] : k \in 1 .. MaxExamples}

InitExamples ==
    /\ hyper_param = DefaultHyperParam
    /\ ValidateIdle
    /\ dataset \in ChainDataSets
    /\ ChainIdle
    /\ CentroidsIdle
    /\ TrainIdle

ChainNewFromDataset ==
    /\ chain_takes = -1
    /\ chain_te' = TrainingExamples_new_from_dataset(dataset)
    /\ chain_rows' = [i \in DOMAIN dataset.feature_lists |-> i]
    /\ chain_takes' = 0
    /\ UNCHANGED <<valVars, dataset, centVars, trainVars>>

ChainTakeExamples ==
    /\ chain_takes >= 0
    /\ chain_takes < MaxChain
    /\ chain_te.panic = ""
    /\ \E indices \in ChainIndexLists(TrainingExamples_len(chain_te)) :
          /\ chain_te' = take_examples_by_indices(chain_te, indices)
          /\ chain_rows' = [j \in DOMAIN indices |-> chain_rows[indices[j] + 1]]
    /\ chain_takes' = chain_takes + 1
    /\ UNCHANGED <<valVars, dataset, centVars, trainVars>>

NextExamples == ChainNewFromDataset \/ ChainTakeExamples

SpecExamples == InitExamples /\ [][NextExamples]_vars

\* ========================================================== SpecCentroids
\* compute_label_centroids over every dataset of CentroidDataSets, as given
\* and after the L2 normalisation of its feature lists, for every threshold
\* of CentroidThresholds and every iteration order of the hash maps.

\* The dataset of tests::test_compute_label_centroids.
TestDataSet ==
    [n_features |-> 4, n_labels |-> 3,
     feature_lists |-> << <<(<<0, 1 * One>>), (<<2, 2 * One>>)>>,
                          <<(<<1, 1 * One>>), (<<3, 2 * One>>)>>,
                          <<(<<0, 1 * One>>), (<<3, 2 * One>>)>> >>,
     label_sets |-> << {0, 1}, {0, 2}, {1, 2} >>]

\* 59/250 stands for the test's 1/sqrt(18) + 1e-4.
CentroidThresholds == {Rat(0, 1), Rat(59, 250), Rat(3, 4), NaN}

CentroidDataSets ==
    DataSetsOver(FeatureLists, SUBSET (0 .. NLabels - 1), 0 .. MaxExamples)
        \cup {TestDataSet}

InitCentroids ==
    /\ hyper_param \in {[DefaultHyperParam EXCEPT !.centroid_threshold = t] :
                            t \in CentroidThresholds}
    /\ ValidateIdle
    /\ dataset \in CentroidDataSets
    /\ ChainIdle
    /\ cent_pc = "raw"
    /\ cent = [labels |-> <<>>, vecs |-> <<>>]
    /\ TrainIdle

CentroidsNormalize ==
    /\ cent_pc = "raw"
    /\ dataset' = normalize_feature_lists(dataset)
    /\ cent_pc' = "normalized"
    /\ UNCHANGED <<valVars, chainVars, cent, trainVars>>

CentroidsCompute ==
    /\ cent_pc \in {"raw", "normalized"}
    /\ \E orders \in HashOrders(dataset) :
          cent' = compute_label_centroids(dataset, hyper_param.centroid_threshold, orders)
    /\ cent_pc' = "done"
    /\ UNCHANGED <<valVars, chainVars, dataset, trainVars>>

NextCentroids == CentroidsNormalize \/ CentroidsCompute

SpecCentroids == InitCentroids /\ [][NextCentroids]_vars

\* ================================================================= claims

\* ------------------------------------------------------------------- C1
\* The bounds of the specification's sections 6 and 7, in the order validate
\* checks them, each with the message that names it.
Bounds ==
    << [msg |-> "n_trees must be positive",
        violated |-> [hp \in HyperParamSpace |-> hp.n_trees = 0]],
       [msg |-> "min_branch_size must be greater than 1",
        violated |-> [hp \in HyperParamSpace |-> hp.min_branch_size <= 1]],
       [msg |-> "centroid_threshold must be non-negative",
        violated |-> [hp \in HyperParamSpace |->
                        /\ ~hp.centroid_threshold.nan
                        /\ hp.centroid_threshold.num < 0]],
       [msg |-> "max_depth must be positive",
        violated |-> [hp \in HyperParamSpace |-> hp.max_depth = 0]],
       [msg |-> "Invalid liblinear hyper-parameter",
        violated |-> [hp \in HyperParamSpace |->
                        \/ hp.linear.C <= 0 \/ hp.linear.epsilon <= 0
                        \/ hp.linear.max_iter <= 0
                        \/ hp.linear.weight_threshold < 0]],
       [msg |-> "Invalid clustering hyper-parameter",
        violated |-> [hp \in HyperParamSpace |->
                        \/ hp.cluster.k_means_max_iter <= 0
                        \/ hp.cluster.epsilon <= 0]] >>

ViolatedBounds(hp) == {i \in 1 .. Len(Bounds) : Bounds[i].violated[hp]}

\* C1: validate() fails exactly when some stated bound is violated, its
\* message names the first violated bound in check order, and it returns Ok
\* when no bound is violated.
C1_ValidateTotal ==
    vres # Pending =>
        LET bad == ViolatedBounds(hyper_param) IN
        /\ vres.ok <=> bad = {}
        /\ ~vres.ok =>
              \E i \in bad :
                  /\ vres.msg = Bounds[i].msg
                  /\ \A j \in bad : i <= j

\* A HyperParam violating only max_depth >= 1 has been rejected.
C1_Witness ==
    /\ vres # Pending
    /\ ViolatedBounds(hyper_param) = {4}
    /\ ~vres.ok
    /\ vres.msg = "max_depth must be positive"

\* ------------------------------------------------------------------- C6
\* The value of feature f (a global index, n_features being the bias) in
\* example i of the dataset; 0 when the example does not store it.
OriginalValue(ds, i, f) ==
    IF f = ds.n_features THEN One
    ELSE IF \E p \in Range(ds.feature_lists[i]) : p[1] = f
         THEN (CHOOSE p \in Range(ds.feature_lists[i]) : p[1] = f)[2]
         ELSE 0

Entry(m, r, k) == IF k \in DOMAIN m.rows[r] THEN m.rows[r][k] ELSE 0

\* Column k of te holds, row by row, the dataset's feature
\* index_to_feature[k] of the example the row was selected from, and no
\* stored feature of a selected example is without a column.
RemapsToOriginal(te, rows, ds) ==
    /\ Len(te.index_to_feature) = te.feature_matrix.cols
    /\ \A r \in DOMAIN te.feature_matrix.rows :
          /\ \A k \in 0 .. te.feature_matrix.cols - 1 :
                Entry(te.feature_matrix, r, k)
                    = OriginalValue(ds, rows[r], te.index_to_feature[k + 1])
          /\ DOMAIN te.feature_matrix.rows[r] \subseteq 0 .. te.feature_matrix.cols - 1
          /\ \A f \in 0 .. ds.n_features :
                OriginalValue(ds, rows[r], f) # 0 => f \in Range(te.index_to_feature)

\* C6: after any chain of take_examples_by_indices calls from
\* new_from_dataset, every local column k holds the values of the original
\* feature index_to_feature[k] for the selected examples.
C6_FeatureRemap ==
    chain_takes >= 0 => RemapsToOriginal(chain_te, chain_rows, dataset)

\* Two takes have been made, the first of which compacted the columns, so
\* that the parent's local indices differ from the global ones.
C6_Witness ==
    /\ chain_takes = 2
    /\ chain_te.panic = ""
    /\ chain_te.index_to_feature[1] # 0

\* ------------------------------------------------------------------- C2
\* C2: when train is called with hyper-parameters for which validate()
\* fails, it aborts before any work starts: the dataset is not normalised,
\* no centroids and no TrainingExamples are built (no trainer), there is no
\* progress bar, no node is trained and no Model is returned.
C2_AbortsBeforeWork ==
    (phase # "idle" /\ ~validate(hyper_param).ok) =>
        /\ phase \in {"start", "panicked"}
        /\ ~trainer.created
        /\ ~progress_bar.created
        /\ nodes = <<>>
        /\ trees = NoTrees
        /\ arcs = NoArcs
        /\ ~model.returned

\* train has panicked on hyper-parameters whose only fault is max_depth = 0.
C2_Witness ==
    /\ phase = "panicked"
    /\ hyper_param.max_depth = 0
    /\ validate(hyper_param).msg = "max_depth must be positive"
    /\ ~trainer.created

\* ------------------------------------------------------------------- C3
MaxOf(S) == CHOOSE x \in S : \A y \in S : y <= x

\* The number of nodes on the longest path from `node` down to a leaf.
RECURSIVE Depth(_)
Depth(node) ==
    IF node.children = <<>> THEN 1
    ELSE 1 + MaxOf({Depth(node.children[k]) : k \in DOMAIN node.children})

\* C3: every tree train produces has depth at most max_depth (no call of
\* train_subtree is made deeper than that), and with max_depth = 1 every
\* tree is a single leaf holding all root labels.
C3_DepthBound ==
    /\ \A id \in DOMAIN nodes :
          /\ nodes[id].depth = Len(id[2]) + 1
          /\ nodes[id].depth <= hyper_param.max_depth
    /\ model.returned =>
          \A t \in DOMAIN model.trees :
              /\ Depth(model.trees[t]) <= hyper_param.max_depth
              /\ hyper_param.max_depth = 1 =>
                    /\ model.trees[t].type = "Leaf"
                    /\ model.trees[t].labels = trainer.all_labels.labels

\* A tree as deep as max_depth = MaxDepth allows has been returned.
C3_Witness ==
    /\ model.returned
    /\ hyper_param.max_depth = MaxDepth
    /\ \E t \in DOMAIN model.trees : Depth(model.trees[t]) = MaxDepth

\* ------------------------------------------------------------------- C4
\* The label lists of the leaves under `node`, concatenated left to right.
RECURSIVE LeafLabels(_)
RECURSIVE LeafLabelsUpTo(_, _)
LeafLabels(node) ==
    IF node.type = "Leaf" THEN node.labels
    ELSE LeafLabelsUpTo(node.children, Len(node.children))
LeafLabelsUpTo(children, k) ==
    IF k = 0 THEN <<>>
    ELSE LeafLabelsUpTo(children, k - 1) \o LeafLabels(children[k])

Count(s, x) == Cardinality({i \in DOMAIN s : s[i] = x})

SameBag(s, t) == \A x \in Range(s) \cup Range(t) : Count(s, x) = Count(t, x)

RECURSIVE Leaves(_)
Leaves(node) ==
    IF node.type = "Leaf" THEN {node}
    ELSE UNION {Leaves(node.children[k]) : k \in DOMAIN node.children}

ExamplesCarrying(te, labels) ==
    {i - 1 : i \in {j \in DOMAIN te.label_sets :
                      \E l \in Range(labels) : l \in te.label_sets[j]}}

IsBranchCall(n) == n.pc \in {"forked", "done"} /\ n.label_clusters # <<>>

\* C5: at every branch node, the example index lists of the child clusters
\* together hold exactly the examples of the node that carry a label of the
\* node's cluster, which is find_examples_with_labels of the node's labels.
C5_ExamplesUnion ==
    \A id \in DOMAIN nodes :
        IsBranchCall(nodes[id]) =>
            LET n == nodes[id]
                union == UNION {Range(n.example_index_lists[k]) :
                                  k \in DOMAIN n.example_index_lists}
            IN  /\ Len(n.example_index_lists) = Len(n.label_clusters)
                /\ union = ExamplesCarrying(n.examples, n.label_cluster.labels)
                /\ union = Range(find_examples_with_labels(n.examples,
                                                           n.label_cluster.labels))

\* A branch node one of whose examples is in the index lists of two children.
C5_Witness ==
    \E id \in DOMAIN nodes :
        /\ IsBranchCall(nodes[id])
        /\ \E j, k \in DOMAIN nodes[id].example_index_lists :
              /\ j # k
              /\ Range(nodes[id].example_index_lists[j])
                    \cap Range(nodes[id].example_index_lists[k]) # {}

\* ------------------------------------------------------------------- C7
\* The TrainingExamples built so far: the trainer's, once initialize got to
\* build it, and the one of every call of train_subtree.
ReachableExamples ==
    (IF trainer.created /\ trainer.panic \in {"", "all_examples"}
     THEN {trainer.all_examples} ELSE {})
        \cup {nodes[id].examples : id \in DOMAIN nodes}

\* The local columns (0-based) of te that stand for global feature f.
ColumnsOf(te, f) == {k - 1 : k \in {j \in DOMAIN te.index_to_feature :
                                      te.index_to_feature[j] = f}}

\* C7: every TrainingExamples of the training has exactly one local column
\* whose index_to_feature value is the dataset's n_features, and that column
\* holds 1 on every row.
C7_BiasColumn ==
    \A te \in ReachableExamples :
        /\ Cardinality(ColumnsOf(te, dataset.n_features)) = 1
        /\ \A k \in ColumnsOf(te, dataset.n_features) :
              /\ k < te.feature_matrix.cols
              /\ \A r \in DOMAIN te.feature_matrix.rows :
                    Entry(te.feature_matrix, r, k) = One

\* A call two takes below the root whose examples lost a column to the
\* compaction, the bias column being local column 1 instead of NFeatures.
C7_Witness ==
    \E id \in DOMAIN nodes :
        /\ Len(id[2]) = 2
        /\ nodes[id].examples.panic = ""
        /\ ColumnsOf(nodes[id].examples, dataset.n_features) = {1}
        /\ NFeatures > 1

\* ------------------------------------------------------------------- C8
\* C8: for every TrainingExamples of the training, the matrix has as many
\* columns as index_to_feature has entries and as many rows as there are
\* label sets, every index_to_feature value is at most the dataset's
\* n_features, and neither assertion of TrainingExamples::new on these
\* equalities has failed.
C8_ShapeInvariant ==
    \A te \in ReachableExamples :
        /\ te.panic \notin {"rows", "cols"}
        /\ te.feature_matrix.cols = Len(te.index_to_feature)
        /\ Len(te.feature_matrix.rows) = Len(te.label_sets)
        /\ \A k \in DOMAIN te.index_to_feature :
              te.index_to_feature[k] <= dataset.n_features

\* A returned child call that was given fewer rows and fewer columns than
\* the dataset has.
C8_Witness ==
    \E id \in DOMAIN nodes :
        /\ id[2] # <<>>
        /\ nodes[id].pc = "done"
        /\ Len(nodes[id].examples.label_sets) < Len(dataset.label_sets)
        /\ Len(nodes[id].examples.index_to_feature) < dataset.n_features + 1

\* ------------------------------------------------------------------- C9
\* C9: for every branch node returned, in every interleaving of its
\* children task, the sibling calls and its classifier task: it has as many
\* children as the split returned sub-clusters, at least 2; children[k] is
\* the subtree trained for sub-cluster k, its leaves holding the labels of
\* sub-cluster k; and output k of its classifier was trained with positives
\* find_examples_with_labels(labels of sub-cluster k).
C9_ChildrenOrder ==
    \A id \in DOMAIN nodes :
        (nodes[id].pc = "done" /\ nodes[id].result.type = "Branch") =>
            LET n == nodes[id] IN
            /\ Len(n.result.children) = Len(n.label_clusters)
            /\ Len(n.result.children) >= 2
            /\ Len(n.result.classifier.positives) = Len(n.label_clusters)
            /\ \A k \in DOMAIN n.label_clusters :
                  /\ n.result.children[k] = nodes[Child(id, k)].result
                  /\ SameBag(LeafLabels(n.result.children[k]), n.label_clusters[k].labels)
                  /\ n.result.classifier.positives[k]
                        = SortedSeq(ExamplesCarrying(n.examples, n.label_clusters[k].labels))

\* A branch node has returned whose last child returned before its first.
C9_Witness ==
    \E id \in DOMAIN nodes :
        /\ nodes[id].pc = "done"
        /\ nodes[id].result.type = "Branch"
        /\ nodes[id].finished[1] = Len(nodes[id].label_clusters)

\* ------------------------------------------------------------------ C10
\* The sum of squares of a non-empty centroid is 1 within 1e-5: with
\* entries num / sqrt(n2), |sum num^2 - n2| <= n2 / 100000.
UnitNorm(v) ==
    LET d == SumSquares(v) - v[1][2].n2
    IN  (IF d < 0 THEN -d ELSE d) * 100000 <= v[1][2].n2

NonNegative(t) == ~t.nan /\ t.num >= 0

\* C10 as stated: after compute_label_centroids with any threshold >= 0,
\* every non-empty centroid has sum of squares 1 (within 1e-5).
C10_UnitCentroids ==
    (cent_pc = "done" /\ NonNegative(hyper_param.centroid_threshold)) =>
        \A k \in DOMAIN cent.vecs : cent.vecs[k] # <<>> => UnitNorm(cent.vecs[k])

\* C10 as amended: the sum of squares of a non-empty centroid is at most 1
\* (within 1e-5), and it is 1 (within 1e-5) when the threshold pruned none of
\* the centroid's entries, as is the case for centroid_threshold = 0.
C10_UnitUnlessPruned ==
    (cent_pc = "done" /\ NonNegative(hyper_param.centroid_threshold)) =>
        \A k \in DOMAIN cent.vecs :
            LET v == cent.vecs[k] IN
            v # <<>> =>
                /\ (SumSquares(v) - v[1][2].n2) * 100000 <= v[1][2].n2
                /\ Indices(v) = FeatureKeys(dataset, cent.labels[k]) => UnitNorm(v)
                /\ hyper_param.centroid_threshold.num = 0 => UnitNorm(v)

\* A centroid has lost an entry to a positive threshold and kept another,
\* next to a centroid that lost none.
C10_Witness ==
    /\ cent_pc = "done"
    /\ hyper_param.centroid_threshold = Rat(59, 250)
    /\ \E k \in DOMAIN cent.vecs :
          /\ cent.vecs[k] # <<>>
          /\ Indices(cent.vecs[k]) # FeatureKeys(dataset, cent.labels[k])
    /\ \E k \in DOMAIN cent.vecs :
          /\ Len(cent.vecs[k]) > 1
          /\ Indices(cent.vecs[k]) = FeatureKeys(dataset, cent.labels[k])

\* ------------------------------------------------------------------ C11
\* The examples of ds (1-based) whose label set holds `label`.
ExamplesOfLabel(ds, label) == {i \in DOMAIN ds.label_sets : label \in ds.label_sets[i]}

\* The sum over the examples carrying `label` of their value of feature f.
LabelFeatureSum(ds, label, f) ==
    LET rows == SortedSeq(ExamplesOfLabel(ds, label))
    IN  SumSeq([k \in DOMAIN rows |-> ValueOf(ds.feature_lists[rows[k]], f)])

\* The centroid of `label` as C11 states it: the feature sums of the examples
\* carrying the label, divided by their L2 norm, then without the entries
\* whose absolute value is below the threshold, ascending by feature.
ExpectedCentroid(ds, label, threshold) ==
    LET F == UNION {Indices(ds.feature_lists[i]) : i \in ExamplesOfLabel(ds, label)}
        fs == SortedSeq(F)
        norm2 == SumSeq([k \in DOMAIN fs |->
                           LabelFeatureSum(ds, label, fs[k]) * LabelFeatureSum(ds, label, fs[k])])
        value(f) == [num |-> LabelFeatureSum(ds, label, f), n2 |-> norm2]
        kept == SortedSeq({f \in F : norm2 > 0 /\ ~AbsLess(value(f), threshold)})
    IN  [k \in DOMAIN kept |-> <<kept[k], value(kept[k])>>]

\* The real x (num / sqrt(n2)) equals a / sqrt(b).
SameReal(x, a, b) == x.num * a >= 0 /\ x.num * x.num * b = a * a * x.n2

\* v holds exactly the pairs (index, a / sqrt(b)) of `expected`, in order.
SameVec(v, expected) ==
    /\ Len(v) = Len(expected)
    /\ \A k \in DOMAIN v :
          /\ v[k][1] = expected[k][1]
          /\ SameReal(v[k][2], expected[k][2], expected[k][3])

\* The centroids that tests::test_compute_label_centroids expects (lines
\* 476-503), as triples (feature, a, b) for the value a / sqrt(b).
TestExpected ==
    (0 :> << <<0, 1, 10>>, <<1, 1, 10>>, <<2, 2, 10>>, <<3, 2, 10>> >>)
        @@ (1 :> << <<0, 2, 12>>, <<2, 2, 12>>, <<3, 2, 12>> >>)
        @@ (2 :> << <<3, 4, 18>> >>)

\* C11: compute_label_centroids returns exactly one (label, centroid) pair
\* for every label that occurs in some example's label set and none for any
\* other label; each centroid is the sum of the feature vectors of the
\* examples carrying the label, L2-normalised and only then pruned of the
\* entries below the threshold, its entries ascending by feature index
\* without duplicates.  On the dataset and threshold of the repository's
\* test the result is the one the test expects.
C11_LabelCentroids ==
    cent_pc = "done" =>
        /\ Len(cent.labels) = Len(cent.vecs)
        /\ Range(cent.labels) = UNION Range(dataset.label_sets)
        /\ Len(cent.labels) = Cardinality(Range(cent.labels))
        /\ \A k \in DOMAIN cent.labels :
              LET v == cent.vecs[k] IN
              /\ v = ExpectedCentroid(dataset, cent.labels[k], hyper_param.centroid_threshold)
              /\ \A i, j \in DOMAIN v : i < j => v[i][1] < v[j][1]
        /\ (dataset = TestDataSet /\ hyper_param.centroid_threshold = Rat(59, 250)) =>
              \A k \in DOMAIN cent.labels :
                  SameVec(cent.vecs[k], TestExpected[cent.labels[k]])

\* The test's dataset and threshold: three centroids returned, label 2 last
\* with the single entry of feature 3 left after the pruning.
C11_Witness ==
    /\ cent_pc = "done"
    /\ dataset = TestDataSet
    /\ hyper_param.centroid_threshold = Rat(59, 250)
    /\ cent.labels = <<1, 0, 2>>
    /\ Indices(cent.vecs[3]) = {3}
    /\ Len(cent.vecs[2]) = 4

\* ------------------------------------------------------------------ C12
\* The rows (0-based) of cluster `parent` that hold the labels of `sub`, in
\* the order of sub's labels (the labels of a cluster are distinct).
RowsTaken(parent, sub) ==
    [j \in DOMAIN sub.labels |->
        (CHOOSE i \in DOMAIN parent.labels : parent.labels[i] = sub.labels[j]) - 1]

\* The calls of train_subtree whose split returned sub-clusters.
SplitCalls == {id \in DOMAIN nodes : nodes[id].label_clusters # <<>>}

\* C12 as stated: every sub-cluster a split returned has as feature_matrix
\* the row selection (copy_outer_dims) of the parent's with the columns not
\* shrunk: as many columns as the dataset has features, column j being
\* feature j, and as many rows as labels.
C12_ColumnsNotShrunk ==
    \A id \in SplitCalls :
        \A k \in DOMAIN nodes[id].label_clusters :
            LET parent == nodes[id].label_cluster
                sub == nodes[id].label_clusters[k]
            IN  /\ Len(sub.labels) = Len(sub.feature_matrix.rows)
                /\ sub.feature_matrix.cols = dataset.n_features
                /\ sub.feature_matrix
                      = copy_outer_dims(parent.feature_matrix, RowsTaken(parent, sub))

\* C12 as amended: every sub-cluster a split returned has as feature_matrix
\* the row selection of the parent's with the columns no selected row stores
\* dropped (shrink_column_indices, the column map discarded): as many rows
\* as labels, as many columns as the selected rows store between them, at
\* most n_features, the kept columns in their old order.  The root cluster
\* has n_features columns.
C12_ColumnsShrunk ==
    /\ trainer.created /\ trainer.panic = "" =>
          /\ trainer.all_labels.feature_matrix.cols = dataset.n_features
          /\ Len(trainer.all_labels.labels) = Len(trainer.all_labels.feature_matrix.rows)
    /\ \A id \in SplitCalls :
          \A k \in DOMAIN nodes[id].label_clusters :
              LET parent == nodes[id].label_cluster
                  sub == nodes[id].label_clusters[k]
                  taken == copy_outer_dims(parent.feature_matrix, RowsTaken(parent, sub))
                  used == UNION {DOMAIN taken.rows[r] : r \in DOMAIN taken.rows}
                  old_col_of == SortedSeq(used)
              IN  /\ Len(sub.labels) = Len(sub.feature_matrix.rows)
                  /\ sub.feature_matrix.cols = Cardinality(used)
                  /\ sub.feature_matrix.cols <= parent.feature_matrix.cols
                  /\ sub.feature_matrix.cols <= dataset.n_features
                  /\ \A r \in DOMAIN taken.rows :
                        /\ DOMAIN sub.feature_matrix.rows[r]
                              = {c \in 0 .. Cardinality(used) - 1 :
                                   old_col_of[c + 1] \in DOMAIN taken.rows[r]}
                        /\ \A c \in DOMAIN sub.feature_matrix.rows[r] :
                              sub.feature_matrix.rows[r][c] = taken.rows[r][old_col_of[c + 1]]

\* A split returned a sub-cluster of two labels with fewer columns than the
\* dataset has features, its column 0 holding what was column 1; the
\* sub-cluster was then split again.
C12_Witness ==
    \E id \in SplitCalls :
        \E k \in DOMAIN nodes[id].label_clusters :
            LET sub == nodes[id].label_clusters[k] IN
            /\ Len(sub.labels) = 2
            /\ sub.feature_matrix.cols = 1
            /\ dataset.n_features = 2
            /\ \A r \in DOMAIN sub.feature_matrix.rows :
                  /\ DOMAIN sub.feature_matrix.rows[r] = {0}
                  /\ 1 \in DOMAIN nodes[id].label_cluster.feature_matrix.rows[
                                      RowsTaken(nodes[id].label_cluster, sub)[r] + 1]
            /\ Child(id, k) \in DOMAIN nodes
            /\ nodes[Child(id, k)].label_cluster = sub

\* ------------------------------------------------------------------ C13
\* initialize has returned and no tree task has started: the progress bar is
\* as it was created.
ProgressBarInitial == phase = "trees" /\ nodes = <<>> /\ progress_bar.created

\* The labels carried by at least one example of the dataset.
CarriedLabels == UNION Range(dataset.label_sets)

\* C13 as stated: the initial total of the progress bar is
\* dataset.n_labels * n_trees, whether or not every label below n_labels is
\* carried by an example.
C13_TotalIsNLabels ==
    ProgressBarInitial =>
        progress_bar.total = dataset.n_labels * hyper_param.n_trees

\* C13 as amended: the initial total of the progress bar is the number of
\* distinct labels carried by at least one example, times n_trees (the
\* counter being 0); it is dataset.n_labels * n_trees exactly when every
\* label below n_labels is carried by some example.
C13_TotalIsCarriedLabels ==
    ProgressBarInitial =>
        /\ progress_bar.counter = 0
        /\ progress_bar.total = Cardinality(CarriedLabels) * hyper_param.n_trees
        /\ progress_bar.total = LabelCluster_len(trainer.all_labels) * hyper_param.n_trees
        /\ (progress_bar.total = dataset.n_labels * hyper_param.n_trees)
              <=> (CarriedLabels = 0 .. dataset.n_labels - 1)

\* The progress bar was created for MaxTrees trees on a dataset of which
\* one label only is carried, out of n_labels = NLabels.
C13_Witness ==
    /\ ProgressBarInitial
    /\ hyper_param.n_trees = MaxTrees
    /\ dataset.n_labels = NLabels
    /\ CarriedLabels = {0}
    /\ progress_bar.total = MaxTrees
    /\ NLabels > 1

\* ------------------------------------------------------------------ C14
\* The calls of train_subtree that hold the lock of the progress bar: after
\* `total +=` (pc "unlock_total") or after `add` (clf_pc "unlock_add"), the
\* guard not yet dropped.
LockHolders ==
    {id \in DOMAIN nodes : nodes[id].pc = "unlock_total" \/ nodes[id].clf_pc = "unlock_add"}

\* The calls that have yet to take the lock: at the split (which ends in
\* lock() when it branches) or at train_classifier (which ends in lock()).
LockWaiters ==
    {id \in DOMAIN nodes : nodes[id].pc = "start" \/ nodes[id].clf_pc = "train"}

\* Call id is the one the mutex records as its holder.
HoldsLock(id) == progress_bar.locked /\ progress_bar.holder = id

\* C14: in every interleaving, the lock of the progress bar is held by one
\* task only, which has just done its update of total or counter and whose
\* next step releases it: no holder is at a split, at a classifier
\* training, at a child recursion or waiting at the join.  Under a fair
\* scheduler no task is left waiting for the lock.
C14_LockOnlyForUpdate ==
    /\ [](/\ progress_bar.locked <=> LockHolders # {}
          /\ Cardinality(LockHolders) <= 1
          /\ \A id \in LockHolders :
                /\ HoldsLock(id)
                /\ nodes[id].pc = "unlock_total" =>
                      /\ nodes[id].clf_pc = "none"
                      /\ nodes[id].child_pc = <<>>
                      /\ ENABLED ForkBranch(id)
                /\ nodes[id].clf_pc = "unlock_add" =>
                      /\ nodes[id].classifier.trained
                      /\ ENABLED UnlockAdd(id))
    /\ <>[](LockWaiters = {} /\ ~progress_bar.locked)

\* While a leaf call holds the lock after its `add`, the classifier task of
\* its parent and its sibling call have yet to take it.
C14_Witness ==
    \E id \in LockHolders :
        /\ id[2] # <<>>
        /\ nodes[id].clf_pc = "unlock_add"
        /\ HoldsLock(id)
        /\ nodes[Parent(id)].clf_pc = "train"
        /\ \E b \in LockWaiters :
              b # id /\ b # Parent(id) /\ Parent(b) = Parent(id)

\* ------------------------------------------------------------------ C15
\* A deterministic clusterer: for a matrix, always the same clustering among
\* those cluster_train may return.
cluster_det(m) == CHOOSE c \in cluster_train(m) : TRUE

\* What a call of train_subtree gets from split with that clusterer.
SplitDet(depth, lc, hp) ==
    IF should_branch(depth, lc, hp) THEN split(lc, cluster_det(lc.feature_matrix)) ELSE None

\* The structure of the subtree a single-threaded train_subtree(depth, _, lc)
\* returns with that clusterer: <<"Leaf", labels>> or <<"Branch", children>>.
RECURSIVE SequentialShape(_, _, _)
SequentialShape(depth, lc, hp) ==
    LET sub == SplitDet(depth, lc, hp)
    IN  IF sub.some
        THEN <<"Branch", [k \in DOMAIN sub.value |->
                            SequentialShape(depth + 1, sub.value[k], hp)]>>
        ELSE <<"Leaf", lc.labels>>

\* The structure of a returned TreeNode.
RECURSIVE Shape(_)
Shape(node) ==
    IF node.type = "Branch"
    THEN <<"Branch", [k \in DOMAIN node.children |-> Shape(node.children[k])]>>
    ELSE <<"Leaf", node.labels>>

\* In this run the clusterer answered every call as cluster_det does.
DeterministicClusterer ==
    \A id \in DOMAIN nodes :
        nodes[id].pc # "start" =>
            LET sub == SplitDet(nodes[id].depth, nodes[id].label_cluster, trainer.hyper_param)
            IN  nodes[id].label_clusters = IF sub.some THEN sub.value ELSE <<>>

\* The root cluster of a run whose label map is walked in the order `labels`
\* (the feature maps in any order).
RootClusterFor(labels) ==
    LET normalized == normalize_feature_lists(dataset)
        orders == CHOOSE o \in HashOrders(normalized) : o.labels = labels
    IN  LabelCluster_new_from_dataset(normalized, hyper_param.centroid_threshold, orders)

\* One fixed iteration order of the label map.
SomeLabelOrder == (CHOOSE o \in HashOrders(normalize_feature_lists(dataset)) : TRUE).labels

\* C15 as stated: with a deterministic clusterer, every run on the same
\* dataset and hyper-parameters returns trees of one and the same
\* structure, whatever the scheduling and whatever the iteration order of
\* the label map: the structure the single-threaded run with one fixed
\* iteration order gives.
C15_SameTreeAnyMapOrder ==
    (model.returned /\ DeterministicClusterer) =>
        \A t \in DOMAIN model.trees :
            Shape(model.trees[t])
                = SequentialShape(1, RootClusterFor(SomeLabelOrder), hyper_param)

\* C15 as amended: with a deterministic clusterer, every run on the same
\* dataset and hyper-parameters in which the label map is walked in the same
\* order returns trees of the same structure, whatever the scheduling and
\* the iteration order of the feature maps: the structure of the
\* single-threaded run with that label order.
C15_SameTreeSameMapOrder ==
    (model.returned /\ DeterministicClusterer) =>
        \A t \in DOMAIN model.trees :
            Shape(model.trees[t])
                = SequentialShape(1, RootClusterFor(trainer.all_labels.labels), hyper_param)

\* A run with the deterministic clusterer has returned a tree of depth 3 in
\* which a child task finished before an earlier sibling, the label map
\* walked in another order than the fixed one and the tree differing from
\* the one of the fixed order.
C15_Witness ==
    /\ model.returned
    /\ DeterministicClusterer
    /\ Depth(model.trees[1]) = 3
    /\ \E id \in DOMAIN nodes : nodes[id].finished # <<>> /\ nodes[id].finished[1] # 1
    /\ trainer.all_labels.labels # SomeLabelOrder
    /\ Shape(model.trees[1])
          # SequentialShape(1, RootClusterFor(SomeLabelOrder), hyper_param)

\* ------------------------------------------------------------------ C16
\* The calls of train_subtree that have returned their node.
DoneCalls == {id \in DOMAIN nodes : nodes[id].pc = "done"}

\* The depth and size condition of train_subtree for call n.
MayBranch(n) ==
    /\ n.depth < hyper_param.max_depth
    /\ Len(n.label_cluster.labels) >= hyper_param.min_branch_size

\* C16: a call of train_subtree returns a Branch exactly when
\* depth < max_depth, the cluster has at least min_branch_size labels and
\* the split returned more than one sub-cluster; otherwise it returns a Leaf
\* whose labels are the cluster's labels in order and whose classifier has
\* one output per leaf label, output k trained on the call's own examples
\* with positives find_examples_with_label(labels[k]).
C16_BranchOrLeaf ==
    \A id \in DoneCalls :
        LET n == nodes[id] IN
        /\ n.result.type \in {"Branch", "Leaf"}
        /\ n.result.type = "Branch" <=> (MayBranch(n) /\ Len(n.label_clusters) > 1)
        /\ (MayBranch(n) /\ n.label_clusters = <<>>) =>
              <<SortedSeq(0 .. Len(n.label_cluster.labels) - 1)>>
                  \in cluster_train(n.label_cluster.feature_matrix)
        /\ n.result.type = "Leaf" =>
              /\ n.result.labels = n.label_cluster.labels
              /\ n.result.children = <<>>
              /\ n.result.classifier.trained
              /\ n.result.classifier.n_examples = Len(n.examples.label_sets)
              /\ Len(n.result.classifier.positives) = Len(n.result.labels)
              /\ \A k \in DOMAIN n.result.labels :
                    n.result.classifier.positives[k]
                        = SortedSeq({r \in 0 .. Len(n.examples.label_sets) - 1 :
                                       n.result.labels[k] \in n.examples.label_sets[r + 1]})

\* A Leaf was returned above the depth limit for a cluster of
\* min_branch_size labels (its split gave one cluster), each of its two
\* outputs trained on the one example of the call; and a Branch was returned.
C16_Witness ==
    /\ \E id \in DoneCalls :
          /\ nodes[id].result.type = "Leaf"
          /\ MayBranch(nodes[id])
          /\ Len(nodes[id].result.labels) = 2
          /\ nodes[id].result.classifier.positives = << <<0>>, <<0>> >>
    /\ \E id \in DoneCalls : nodes[id].result.type = "Branch"

\* ------------------------------------------------------------------ C17
\* train has returned a Model of n_trees trees, tree t being the node that
\* tree task t returned, every call of train_subtree having returned.
TrainCompleted ==
    /\ phase = "returned"
    /\ model.returned
    /\ Len(model.trees) = hyper_param.n_trees
    /\ \A t \in 1 .. hyper_param.n_trees :
          /\ <<t, <<>>>> \in DOMAIN nodes
          /\ model.trees[t] = nodes[<<t, <<>>>>].result
    /\ \A id \in DOMAIN nodes :
          /\ nodes[id].pc = "done"
          /\ nodes[id].result.type \in {"Branch", "Leaf"}
          /\ nodes[id].depth <= hyper_param.max_depth

\* C17 as stated: for valid hyper-parameters and any well-formed dataset,
\* under fair scheduling every call of train_subtree eventually returns a
\* node, every tree task finishes and train returns a Model of n_trees trees.
C17_AlwaysCompletes == validate(hyper_param).ok => <>[]TrainCompleted

\* C17 as amended: for valid hyper-parameters and a well-formed dataset in
\* which at least one example carries a label, under fair scheduling every
\* call of train_subtree eventually returns a node, every tree task
\* finishes and train returns a Model of n_trees trees; when no example
\* carries a label, train panics in initialize and returns no Model.
C17_TrainCompletes ==
    validate(hyper_param).ok =>
        <>[](IF UNION Range(dataset.label_sets) # {}
             THEN TrainCompleted
             ELSE phase = "panicked" /\ trainer.panic = "all_labels" /\ ~model.returned)

\* train has returned a tree whose root is a Branch of two children.
C17_Witness ==
    /\ TrainCompleted
    /\ model.trees[1].type = "Branch"
    /\ Len(model.trees[1].children) = 2
    /\ Cardinality(DOMAIN nodes) = 3

\* ------------------------------------------------------------------ C18
\* The handles call id holds on the TrainingExamples it was given: its own
\* one until it forks or its leaf classifier returns; once forked, one for
\* each child that has not yet built its view and one for the classifier
\* task until train_classifier returns.
ExamplesHandles(id) ==
    LET n == nodes[id] IN
    IF n.pc \in {"start", "unlock_total", "leaf"} THEN 1
    ELSE IF n.pc = "forked"
         THEN Cardinality({k \in DOMAIN n.child_pc : n.child_pc[k] = "take"})
                 + (IF n.clf_pc = "done" THEN 0 ELSE 1)
    ELSE 0

\* The handles call id holds on the LabelCluster it was given: one until
\* drop(label_cluster) at the fork, or until the leaf is returned.
ClusterHandles(id) ==
    IF nodes[id].pc \in {"start", "unlock_total", "leaf"} THEN 1 ELSE 0

\* The handle the trainer holds on all_examples and on all_labels, until
\* train returns.
TrainerHandles == IF phase = "returned" THEN 0 ELSE 1

RootCalls == {id \in DOMAIN nodes : id[2] = <<>>}

RECURSIVE SumOver(_, _)
SumOver(f, S) ==
    IF S = {} THEN 0
    ELSE LET x == CHOOSE y \in S : TRUE IN f[x] + SumOver(f, S \ {x})

\* C18: the strong count of every TrainingExamples and LabelCluster is the
\* number of handles not yet dropped.  A child task drops its handle on the
\* parent's examples as it builds its view, before it recurses; the
\* classifier task owns the call's own handle; so the count of a non-root
\* branch call's examples is zero as soon as every child has built its view
\* and the classifier has returned, whatever the children are still doing.
\* The handle on the cluster is dropped before any child is called.  Once
\* every tree task has finished only the trainer refers to the root
\* examples and the root cluster, and nothing does once train has returned.
C18_HandlesDropped ==
    phase \in {"trees", "returned"} =>
        /\ \A id \in DOMAIN nodes \ RootCalls :
              /\ arcs.examples[id] = ExamplesHandles(id)
              /\ arcs.label_cluster[id] = ClusterHandles(id)
              /\ nodes[id].pc = "forked" =>
                    (arcs.examples[id] = 0 <=>
                        /\ nodes[id].clf_pc = "done"
                        /\ \A k \in DOMAIN nodes[id].child_pc :
                              nodes[id].child_pc[k] = "called")
        /\ arcs.examples[RootArc]
              = TrainerHandles + SumOver([id \in RootCalls |-> ExamplesHandles(id)], RootCalls)
        /\ arcs.label_cluster[RootArc]
              = TrainerHandles + SumOver([id \in RootCalls |-> ClusterHandles(id)], RootCalls)
        /\ \A id \in DOMAIN nodes :
              \A k \in DOMAIN nodes[id].child_pc :
                  Child(id, k) \in DOMAIN nodes =>
                      /\ nodes[id].child_pc[k] = "called"
                      /\ ClusterHandles(id) = 0
        /\ Len(trees.finished) = hyper_param.n_trees =>
              /\ arcs.examples[RootArc] = TrainerHandles
              /\ arcs.label_cluster[RootArc] = TrainerHandles
              /\ \A id \in DOMAIN nodes \ RootCalls :
                    arcs.examples[id] = 0 /\ arcs.label_cluster[id] = 0

\* The examples and the cluster of a branch call below the root are no
\* longer referenced while one of its children is still at its split and
\* the other has not returned.
C18_Witness ==
    \E id \in DOMAIN nodes \ RootCalls :
        /\ nodes[id].pc = "forked"
        /\ arcs.examples[id] = 0
        /\ arcs.label_cluster[id] = 0
        /\ nodes[Child(id, 1)].pc = "start"
        /\ nodes[Child(id, 2)].pc # "done"

\* ------------------------------------------------------------------ C19
\* The calls whose split succeeded and that have done `total +=`.
TotalAdded ==
    {id \in DOMAIN nodes : nodes[id].pc \in {"unlock_total", "forked", "done"}
                              /\ nodes[id].label_clusters # <<>>}

\* The calls whose classifier task has done `add`.
CounterAdded == {id \in DOMAIN nodes : nodes[id].clf_pc \in {"unlock_add", "done"}}

\* C19: the counter of the progress bar never decreases and never exceeds
\* the total; a branch has added its number of children to the total
\* before its classifier adds that number to the counter; and when all
\* n_trees tree tasks have finished the counter equals the total.
C19_CounterWithinTotal ==
    /\ [](progress_bar.created =>
            /\ 0 <= progress_bar.counter
            /\ progress_bar.counter <= progress_bar.total
            /\ progress_bar.total
                  = LabelCluster_len(trainer.all_labels) * hyper_param.n_trees
                       + SumOver([id \in TotalAdded |-> Len(nodes[id].label_clusters)],
                                 TotalAdded)
            /\ progress_bar.counter
                  = SumOver([id \in CounterAdded |-> Len(nodes[id].example_index_lists)],
                            CounterAdded)
            /\ \A id \in CounterAdded :
                  nodes[id].label_clusters # <<>> =>
                      /\ id \in TotalAdded
                      /\ Len(nodes[id].example_index_lists) = Len(nodes[id].label_clusters)
            /\ (phase \in {"trees", "returned"}
                  /\ Len(trees.finished) = hyper_param.n_trees) =>
                  progress_bar.counter = progress_bar.total)
    /\ [][/\ progress_bar.counter' >= progress_bar.counter
          /\ progress_bar.total' >= progress_bar.total]_vars

\* train has returned a tree of depth 3: the counter has reached the total,
\* the total having grown by the children of two branches.
C19_Witness ==
    /\ phase = "returned"
    /\ progress_bar.counter = progress_bar.total
    /\ Cardinality(TotalAdded) = 2
    /\ progress_bar.total = LabelCluster_len(trainer.all_labels) + 4

\* ------------------------------------------------------------------ C20
\* The calls that have computed their example_index_lists for a fork.
ForkedCalls == {id \in DOMAIN nodes : nodes[id].pc \in {"forked", "done"}
                                        /\ nodes[id].label_clusters # <<>>}

\* C20: for a dataset in which at least one example carries a label, at
\* every call of train_subtree each label of the call's cluster is carried
\* by at least one of the call's examples; so every index list given to
\* take_examples_by_indices is non-empty, ascending without duplicates and
\* within the rows of the parent's examples, and no assertion of
\* TrainingExamples::new or LabelCluster::new fails: nothing panics once the
\* hyper-parameters have passed validate.
C20_LabelsCarried ==
    (validate(hyper_param).ok /\ UNION Range(dataset.label_sets) # {}) =>
        /\ phase # "panicked"
        /\ trainer.created => trainer.panic = ""
        /\ \A id \in DOMAIN nodes :
              LET n == nodes[id] IN
              /\ n.pc # "panicked"
              /\ n.examples.panic = ""
              /\ n.label_cluster.panic = ""
              /\ n.label_cluster.labels # <<>>
              /\ n.examples.label_sets # <<>>
              /\ \A k \in DOMAIN n.label_clusters :
                    /\ n.label_clusters[k].panic = ""
                    /\ n.label_clusters[k].labels # <<>>
              /\ \A l \in Range(n.label_cluster.labels) :
                    \E r \in DOMAIN n.examples.label_sets : l \in n.examples.label_sets[r]
        /\ \A id \in ForkedCalls :
              LET n == nodes[id] IN
              \A k \in DOMAIN n.example_index_lists :
                  LET list == n.example_index_lists[k] IN
                  /\ list # <<>>
                  /\ \A i, j \in DOMAIN list : i < j => list[i] < list[j]
                  /\ \A i \in DOMAIN list :
                        list[i] \in 0 .. Len(n.examples.label_sets) - 1

\* A fork gave its second child the second example only, and the child was
\* called with that one example; the first example of the dataset carries
\* no label of the child's cluster.
C20_Witness ==
    \E id \in ForkedCalls :
        /\ nodes[id].example_index_lists[2] = <<1>>
        /\ Child(id, 2) \in DOMAIN nodes
        /\ Len(nodes[Child(id, 2)].examples.label_sets) = 1
        /\ Len(nodes[Child(id, 2)].label_cluster.labels) = 2
        /\ Len(nodes[id].examples.label_sets) = 2

====
